---- MODULE Spec2Model ----
(***************************************************************************)
(* Task/queue state manager (app/core/state.py), the legacy state bridge   *)
(* (app/services/legacy_processing.py) and the queue-processing routes     *)
(* (app/api/routes/clustering.py, app/api/routes/tasks.py).                *)
(*                                                                         *)
(* Strings of the source that are not ASCII are written in English:        *)
(*   "Queued"             for the TaskState default message                *)
(*   "Processing started" for the runner's start message                   *)
(*   "Ready"              for the runner's success message                 *)
(*   "Failure"            for the runner's failure message                 *)
(*   "Processing finished successfully" for the bridge's fallback message  *)
(***************************************************************************)
EXTENDS Integers, Sequences, FiniteSets, TLC

VARIABLES
    queue,          \* AppState.queue: list of folder paths
    current_tasks,  \* AppState.current_tasks: dict task_id -> TaskState, in insertion order
    task_history,   \* AppState.task_history: list of TaskState
    enq_log,        \* history variable: paths passed to enqueue since the last clear_queue
    got_queue,      \* the list the last get_queue call returned
    got_shared,     \* that list is the stored list object itself, not a copy of it
    legacy_available, \* legacy_process_folder_task is not None (set when the module is imported)
    old_tasks,      \* old_app_state["current_tasks"]: dict task_id -> dict
    next_id,        \* number of identifiers uuid4 has produced
    pq,             \* the process_queue request in flight: its place and its locals
    rpc,            \* the place of each task's _runner
    bexc,           \* the exception in flight inside run_process_folder_task, per task
    rexc,           \* the exception _runner caught, per task
    recon_calls,    \* history variable: set_task_status calls the bridge issued after the engine call ended
    cleared,        \* history variable: identifiers a clear_tasks call has dropped
    lock,           \* AppState._lock: the caller that holds it, or Unlocked
    waiters,        \* the callers waiting for the lock, first come first
    cpc,            \* the place of each caller of the manager in the method it called
    cop,            \* the method each caller called, with its arguments
    entry,          \* history variable: the manager's state when the holder of the lock entered
    reqs,           \* the process_queue requests in flight at once: the place and locals of each
    accepted        \* history variable: the paths enqueue appended to the queue, in order

\* the manager's state
mgr == <<queue, current_tasks, task_history>>
\* the state only the manager API models use
api == <<enq_log, got_queue, got_shared>>
\* the state of the requests, the runners, the bridge and the engine
prog == <<legacy_available, old_tasks, next_id, pq, rpc, bexc, rexc, recon_calls, cleared>>

\* the lock and its callers
lck == <<lock, waiters, cpc, cop, entry>>

\* the concurrent process_queue requests
conc == <<reqs, accepted>>

vars == <<queue, current_tasks, task_history, enq_log, got_queue, got_shared,
          legacy_available, old_tasks, next_id, pq, rpc, bexc, rexc, recon_calls, cleared,
          lock, waiters, cpc, cop, entry, reqs, accepted>>

(***************************************************************************)
(* Bounds of the model.                                                    *)
(***************************************************************************)
\* tasks process-queue creates in one run of the program
MaxTasks == 2
\* records the manager API model stores at once (active plus history)
MaxRecords == 2
\* enqueue calls remembered since the last clear_queue
MaxLog == 4
\* concurrent callers of the manager in the model of the lock
NumCallers == 2
\* paths the concurrent process_queue requests find accepted into the queue
MaxAccepted == 2

TaskIds == 1..MaxTasks

\* identifiers a caller of the manager API passes
ApiIds == {1, 2}

\* folder paths as the manager stores them
Paths == {"a", "b", "c"}

(***************************************************************************)
(* Optional arguments and fields: None is a value outside the field's      *)
(* range.                                                                  *)
(***************************************************************************)
\* progress: Optional[int] = None
NoProgress == -1
\* error: Optional[str] = None
NoError == "None"

(***************************************************************************)
(* TaskState                                                               *)
(***************************************************************************)
TaskState(task_id, folder_path, status, progress, message, created_at, include_excluded, joint_mode, post_validate, error) ==
    [task_id |-> task_id, folder_path |-> folder_path, status |-> status,
     progress |-> progress, message |-> message, created_at |-> created_at,
     include_excluded |-> include_excluded, joint_mode |-> joint_mode,
     post_validate |-> post_validate, error |-> error]

\* TaskState(task_id, folder_path) with the dataclass defaults
DefaultTaskState(task_id, folder_path, created_at) ==
    TaskState(task_id, folder_path, "pending", 0, "Queued", created_at,
              FALSE, "copy", FALSE, NoError)

(***************************************************************************)
(* The ordered dict current_tasks as a sequence of records with distinct   *)
(* task_id, in insertion order.                                            *)
(***************************************************************************)
Keys(d) == {d[i].task_id : i \in 1..Len(d)}

HasKey(d, k) == \E i \in 1..Len(d) : d[i].task_id = k

\* dict.get(k): the record stored under k (only used when HasKey)
DictGet(d, k) == d[CHOOSE i \in 1..Len(d) : d[i].task_id = k]

\* d[k] = t: replaces in place when k is a key, appends otherwise
DictSet(d, t) ==
    IF HasKey(d, t.task_id)
    THEN [i \in 1..Len(d) |-> IF d[i].task_id = t.task_id THEN t ELSE d[i]]
    ELSE Append(d, t)

\* d.pop(k, None)
DictPop(d, k) == SelectSeq(d, LAMBDA r : r.task_id # k)

\* identifiers of the records of the list task_history
HistoryIds == {task_history[i].task_id : i \in 1..Len(task_history)}

\* x in list
InList(x, l) == \E i \in 1..Len(l) : l[i] = x

(***************************************************************************)
(* AppState: the body of each method, executed under self._lock.           *)
(***************************************************************************)
\* mutant: the membership test is dropped
Enqueue_NoCheck(q, folder_path) == Append(q, folder_path)

Enqueue(q, folder_path) ==
    IF ~InList(folder_path, q) THEN Append(q, folder_path) ELSE q

\* list(self.queue): a new list with the same elements
GetQueue(q) == q

ClearQueue(q) == <<>>

UpsertTask(ct, t) == DictSet(ct, t)

\* mutant: "done" is not taken for a terminal status
MovesToHistory_ErrorOnly(status) == status \in {"error"}

\* status in ("done", "error")
MovesToHistory(status) == status \in {"done", "error"}

\* mutant: the message is assigned without the test "if message"
UpdateFields_AlwaysMessage(t, status, message, progress, error) ==
    [t EXCEPT !.status = status,
              !.message = message,
              !.progress = IF progress # NoProgress THEN progress ELSE @,
              !.error = IF error # NoError THEN error ELSE @]

\* lines 71-77: the in-place update of the record found
UpdateFields(t, status, message, progress, error) ==
    [t EXCEPT !.status = status,
              !.message = IF message # "" THEN message ELSE @,
              !.progress = IF progress # NoProgress THEN progress ELSE @,
              !.error = IF error # NoError THEN error ELSE @]

\* mutant: the record is appended to the history and not removed from the dict
SetTaskStatus_NoPop(ct, th, task_id, status, message, progress, error) ==
    IF ~HasKey(ct, task_id)
    THEN [ct |-> ct, th |-> th]
    ELSE LET t == UpdateFields(DictGet(ct, task_id), status, message, progress, error)
         IN  IF MovesToHistory(status)
             THEN [ct |-> DictSet(ct, t), th |-> Append(th, t)]
             ELSE [ct |-> DictSet(ct, t), th |-> th]

\* mutant: no early return, a missing record is made on the spot (setdefault)
SetTaskStatus_InsertsMissing(ct, th, task_id, status, message, progress, error) ==
    LET found == IF HasKey(ct, task_id) THEN DictGet(ct, task_id)
                 ELSE DefaultTaskState(task_id, "", 0)
        t == UpdateFields(found, status, message, progress, error)
    IN  IF MovesToHistory(status)
        THEN [ct |-> DictPop(ct, task_id), th |-> Append(th, t)]
        ELSE [ct |-> DictSet(ct, t), th |-> th]

\* mutant: a task that is no longer active is looked up in task_history and updated there
SetTaskStatus_RewritesHistory(ct, th, task_id, status, message, progress, error) ==
    IF ~HasKey(ct, task_id)
    THEN [ct |-> ct,
          th |-> [i \in 1..Len(th) |->
                    IF th[i].task_id = task_id
                    THEN UpdateFields(th[i], status, message, progress, error)
                    ELSE th[i]]]
    ELSE LET t == UpdateFields(DictGet(ct, task_id), status, message, progress, error)
         IN  IF MovesToHistory(status)
             THEN [ct |-> DictPop(ct, task_id), th |-> Append(th, t)]
             ELSE [ct |-> DictSet(ct, t), th |-> th]

\* set_task_status: the new (current_tasks, task_history)
SetTaskStatus(ct, th, task_id, status, message, progress, error) ==
    IF ~HasKey(ct, task_id)
    THEN [ct |-> ct, th |-> th]
    ELSE LET t == UpdateFields(DictGet(ct, task_id), status, message, progress, error)
         IN  IF MovesToHistory(status)
             THEN [ct |-> DictPop(ct, task_id), th |-> Append(th, t)]
             ELSE [ct |-> DictSet(ct, t), th |-> th]

\* list(self.current_tasks.values())
ListTasks(ct) == ct

ClearTasks == [ct |-> <<>>, th |-> <<>>]

\* no exception
NoExc == "<no exception>"

\* the process_queue request when none is in flight; pc becomes "loop" (before an
\* upsert_task), "clear" (before clear_queue) and "returned" (resp is the HTTP status)
PqIdle == [pc |-> "idle", queue |-> <<>>, i |-> 1, task_ids |-> <<>>,
           opts |-> [include_excluded |-> FALSE, joint_mode |-> "copy", post_validate |-> FALSE],
           resp |-> 0]

Callers == 1..NumCallers

\* asyncio.Lock(): not held
Unlocked == 0

\* a call of a manager method: the method and its arguments (those the method
\* does not take are left at these values)
NoCall == [op |-> "none", task_id |-> 0, folder_path |-> "", status |-> "",
           message |-> "", progress |-> NoProgress, error |-> NoError]

\* a dict with no key
EmptyDict == [k \in {} |-> 0]

\* no caller holds the lock
NoEntry == [queue |-> <<>>, current_tasks |-> <<>>, task_history |-> <<>>]

\* the process_queue requests that may be in flight at once
Requests == {1, 2}

\* mutant: get_queue returns self.queue
ReturnsStored_Queue(op) == op = "get_queue"

\* whether a method returns the stored container itself: get_queue returns
\* list(self.queue) and list_tasks list(self.current_tasks.values()), new lists
ReturnsStored(op) == FALSE

(***************************************************************************)
(* Initial state: AppState.__init__, the import of the legacy module, no   *)
(* request made yet.                                                       *)
(***************************************************************************)
Init ==
    /\ queue = <<>>
    /\ current_tasks = <<>>
    /\ task_history = <<>>
    /\ enq_log = <<>>
    /\ got_queue = <<>>
    /\ got_shared = FALSE
    /\ legacy_available \in BOOLEAN
    /\ old_tasks = EmptyDict
    /\ next_id = 0
    /\ pq = PqIdle
    /\ rpc = [t \in TaskIds |-> "none"]
    /\ bexc = [t \in TaskIds |-> NoExc]
    /\ rexc = [t \in TaskIds |-> NoExc]
    /\ recon_calls = [t \in TaskIds |-> 0]
    /\ cleared = {}
    /\ lock = Unlocked
    /\ waiters = <<>>
    /\ cpc = [c \in Callers |-> "idle"]
    /\ cop = [c \in Callers |-> NoCall]
    /\ entry = NoEntry
    /\ reqs = [r \in Requests |-> PqIdle]
    /\ accepted = <<>>

(***************************************************************************)
(* SpecApi: the manager driven by an arbitrary caller, one whole method    *)
(* call per step.  A call of set_task_status names its optional arguments  *)
(* or omits them; an omitted argument takes the default of the signature.  *)
(***************************************************************************)
Omitted == "<omitted>"

\* message: str = ""
BindMessage(arg) == IF arg = Omitted THEN "" ELSE arg
\* progress: Optional[int] = None  (an omitted argument is passed as NoProgress)
\* error: Optional[str] = None     (an omitted argument is passed as NoError)

ApiStatuses == {"running", "completed", "done", "error"}
\* (message, progress, error) of a call: nothing, each alone, an empty message, all
ApiArgs == {<<Omitted, NoProgress, NoError>>, <<"", NoProgress, NoError>>,
            <<"msg", NoProgress, NoError>>, <<Omitted, 40, NoError>>,
            <<Omitted, NoProgress, "E">>, <<"msg", 40, "E">>}

ApiEnqueue(p) ==
    /\ queue' = Enqueue(queue, p)
    /\ UNCHANGED <<current_tasks, task_history, enq_log, got_queue, got_shared, prog, lck, conc>>

ApiClearQueue ==
    /\ queue' = ClearQueue(queue)
    /\ UNCHANGED <<current_tasks, task_history, enq_log, got_queue, got_shared, prog, lck, conc>>

ApiUpsertTask(id, p) ==
    /\ HasKey(current_tasks, id) \/ Len(current_tasks) + Len(task_history) < MaxRecords
    /\ current_tasks' = UpsertTask(current_tasks, DefaultTaskState(id, p, 0))
    /\ UNCHANGED <<queue, task_history, enq_log, got_queue, got_shared, prog, lck, conc>>

ApiSetTaskStatus(id, status, message, progress, error) ==
    /\ LET r == SetTaskStatus(current_tasks, task_history, id, status,
                              BindMessage(message), progress, error)
       IN  /\ current_tasks' = r.ct
           /\ task_history' = r.th
    /\ UNCHANGED <<queue, enq_log, got_queue, got_shared, prog, lck, conc>>

ApiClearTasks ==
    /\ current_tasks' = ClearTasks.ct
    /\ task_history' = ClearTasks.th
    /\ UNCHANGED <<queue, enq_log, got_queue, got_shared, prog, lck, conc>>

ApiNext ==
    \/ ApiEnqueue("a")
    \/ ApiClearQueue
    \/ \E id \in ApiIds : ApiUpsertTask(id, "a")
    \/ \E id \in ApiIds, s \in ApiStatuses, a \in ApiArgs :
          ApiSetTaskStatus(id, s, a[1], a[2], a[3])
    \/ ApiClearTasks

\* the manager API models do not involve the legacy module
ApiInit == Init /\ legacy_available

SpecApi == ApiInit /\ [][ApiNext]_vars

(***************************************************************************)
(* C1 (as stated): after any sequence of manager calls no identifier is    *)
(* in current_tasks and in task_history at once.                           *)
(***************************************************************************)
NoOverlap == Keys(current_tasks) \cap HistoryIds = {}

C1_NeverInBoth == NoOverlap

\* the step puts an identifier of task_history into current_tasks
ReusesHistoryId ==
    \E id \in HistoryIds \ Keys(current_tasks) : id \in Keys(current_tasks')

(***************************************************************************)
(* C1 (amended): an identifier comes to be in current_tasks and in         *)
(* task_history at once only by an upsert_task of an identifier that is    *)
(* in task_history; every other call keeps the two disjoint.               *)
(***************************************************************************)
C1_DisjointUnlessReused ==
    [][(NoOverlap /\ ~ReusesHistoryId) => NoOverlap']_vars

C1_Witness ==
    /\ Len(task_history) > 0
    /\ Len(current_tasks) > 0
    /\ NoOverlap

(***************************************************************************)
(* C3: set_task_status on an active task with a non-terminal status.       *)
(***************************************************************************)
\* terminal statuses as the specification's glossary lists them
SpecTerminal == {"done", "completed", "error"}

\* every record but the one of id is where and what it was
OthersKept(id) ==
    /\ Len(current_tasks') = Len(current_tasks)
    /\ \A i \in 1..Len(current_tasks) :
          current_tasks[i].task_id # id => current_tasks'[i] = current_tasks[i]
    /\ \A i \in 1..Len(current_tasks) :
          current_tasks[i].task_id = id => current_tasks'[i].task_id = id

\* the fields no argument of set_task_status names
IdentityKept(old, new) ==
    /\ new.task_id = old.task_id
    /\ new.folder_path = old.folder_path
    /\ new.created_at = old.created_at
    /\ new.include_excluded = old.include_excluded
    /\ new.joint_mode = old.joint_mode
    /\ new.post_validate = old.post_validate

(***************************************************************************)
(* C3 (as stated): status is overwritten, every supplied message,          *)
(* progress and error replaces the stored one (an empty message too),      *)
(* omitted ones are kept, and nothing else changes.                        *)
(***************************************************************************)
C3_SuppliedReplaces ==
    [][\A id \in ApiIds, s \in ApiStatuses \ SpecTerminal, a \in ApiArgs :
         (HasKey(current_tasks, id) /\ ApiSetTaskStatus(id, s, a[1], a[2], a[3])) =>
            LET old == DictGet(current_tasks, id)
                new == DictGet(current_tasks', id)
            IN  /\ HasKey(current_tasks', id)
                /\ new.status = s
                /\ new.message = IF a[1] = Omitted THEN old.message ELSE a[1]
                /\ new.progress = IF a[2] = NoProgress THEN old.progress ELSE a[2]
                /\ new.error = IF a[3] = NoError THEN old.error ELSE a[3]
                /\ IdentityKept(old, new)
                /\ OthersKept(id)
                /\ queue' = queue
                /\ task_history' = task_history]_vars

(***************************************************************************)
(* C3 (amended): status is overwritten; a non-empty message, a progress    *)
(* and an error that are not None replace the stored ones; an omitted or   *)
(* empty message, an omitted or None progress or error keep them; the      *)
(* other fields, the other records, the queue and the history are kept,    *)
(* and the task stays in current_tasks at its place.                       *)
(***************************************************************************)
C3_PartialUpdate ==
    [][\A id \in ApiIds, s \in ApiStatuses \ SpecTerminal, a \in ApiArgs :
         (HasKey(current_tasks, id) /\ ApiSetTaskStatus(id, s, a[1], a[2], a[3])) =>
            LET old == DictGet(current_tasks, id)
                new == DictGet(current_tasks', id)
            IN  /\ HasKey(current_tasks', id)
                /\ new.status = s
                /\ new.message = IF a[1] \in {Omitted, ""} THEN old.message ELSE a[1]
                /\ new.progress = IF a[2] = NoProgress THEN old.progress ELSE a[2]
                /\ new.error = IF a[3] = NoError THEN old.error ELSE a[3]
                /\ IdentityKept(old, new)
                /\ OthersKept(id)
                /\ queue' = queue
                /\ task_history' = task_history]_vars

\* an active record that partial updates have changed, beside an untouched one
C3_Witness ==
    \E i, j \in 1..Len(current_tasks) :
        /\ current_tasks[i].status = "running"
        /\ current_tasks[i].message = "msg"
        /\ current_tasks[i].progress = 0
        /\ current_tasks[i].error = "E"
        /\ current_tasks[j].status = "pending"

(***************************************************************************)
(* C4: set_task_status with an identifier that is not in current_tasks     *)
(* changes nothing, whatever its other arguments are.                      *)
(***************************************************************************)
C4_UnknownIdNoOp ==
    [][\A id \in ApiIds, s \in ApiStatuses, a \in ApiArgs :
         (~HasKey(current_tasks, id) /\ ApiSetTaskStatus(id, s, a[1], a[2], a[3])) =>
            /\ queue' = queue
            /\ current_tasks' = current_tasks
            /\ task_history' = task_history]_vars

\* an identifier that moved to history, beside an active record and a queued path
C4_Witness ==
    /\ \E id \in HistoryIds : ~HasKey(current_tasks, id)
    /\ Len(current_tasks) > 0
    /\ Len(queue) > 0

(***************************************************************************)
(* SpecQueue: the queue methods driven by an arbitrary caller, with the    *)
(* record of the enqueue calls made since the last clear_queue.            *)
(***************************************************************************)
QEnqueue(p) ==
    /\ Len(enq_log) < MaxLog
    /\ queue' = Enqueue(queue, p)
    /\ enq_log' = Append(enq_log, p)
    /\ UNCHANGED <<current_tasks, task_history, got_queue, got_shared, prog, lck, conc>>

QGetQueue ==
    /\ got_queue' = GetQueue(queue)
    /\ got_shared' = ReturnsStored("get_queue")
    /\ UNCHANGED <<queue, current_tasks, task_history, enq_log, prog, lck, conc>>

QClearQueue ==
    /\ queue' = ClearQueue(queue)
    /\ enq_log' = <<>>
    /\ UNCHANGED <<current_tasks, task_history, got_queue, got_shared, prog, lck, conc>>

QueueNext ==
    \/ \E p \in Paths : QEnqueue(p)
    \/ QGetQueue
    \/ QClearQueue

SpecQueue == ApiInit /\ [][QueueNext]_vars

\* no element of the list occurs twice
NoDuplicates(l) == \A i, j \in 1..Len(l) : l[i] = l[j] => i = j

\* the elements of the list in the order of their first occurrence
RECURSIVE FirstOccurrences(_)
FirstOccurrences(l) ==
    IF l = <<>> THEN <<>>
    ELSE LET front == FirstOccurrences(SubSeq(l, 1, Len(l) - 1))
             last == l[Len(l)]
         IN  IF InList(last, front) THEN front ELSE Append(front, last)

(***************************************************************************)
(* C5: the queue never holds a path twice and is the list of the distinct  *)
(* paths enqueued since the last clear_queue in the order of their first   *)
(* insertion, which is what get_queue returns; an enqueue of a queued path *)
(* changes nothing, and any enqueue lengthens the queue by at most one.    *)
(***************************************************************************)
C5_QueueDistinctInOrder ==
    /\ [](NoDuplicates(queue) /\ queue = FirstOccurrences(enq_log))
    /\ [][QGetQueue => got_queue' = FirstOccurrences(enq_log)]_vars
    /\ [][\A p \in Paths : QEnqueue(p) =>
            /\ InList(p, queue) => queue' = queue
            /\ Len(queue') <= Len(queue) + 1
            /\ InList(p, queue')]_vars

\* a path enqueued again after another one, and the queue read
C5_Witness ==
    /\ Len(enq_log) > Len(queue)
    /\ Len(queue) >= 2
    /\ got_queue = queue

(***************************************************************************)
(* Spec: the program.  The HTTP routes, the background runners, the bridge *)
(* and the external engine.  A coroutine is suspended where it awaits a    *)
(* manager method (the acquisition of the lock) and where it awaits the    *)
(* engine; one step runs the awaited body and the code up to the next      *)
(* suspension.                                                             *)
(***************************************************************************)
\* paths as requests give them
RawPaths == {"a", "a/", "b", "missing", "file.txt"}
\* str(Path(path)): a trailing separator is dropped
PathStr(raw) == IF raw = "a/" THEN "a" ELSE raw
\* the file system: folder_path.exists() and folder_path.is_dir()
PathExists(raw) == PathStr(raw) \in {"a", "b", "file.txt"}
PathIsDir(raw) == PathStr(raw) \in {"a", "b"}

\* the query parameters of a process-queue request: none is the default
QueryOptions ==
    {[include_excluded |-> TRUE, joint_mode |-> "move", post_validate |-> TRUE]}
\* RuntimeError("Legacy process_folder_task not available")
Unavailable == "Legacy process_folder_task not available"

(***************************************************************************)
(* dicts of the external state: a dict is a function on its keys           *)
(***************************************************************************)
HasEntry(d, k) == k \in DOMAIN d
\* d[k] = v
Put(d, k, v) == [x \in DOMAIN d \cup {k} |-> IF x = k THEN v ELSE d[x]]
\* del d[k]
Remove(d, k) == [x \in DOMAIN d \ {k} |-> d[x]]
\* d.get(k, default)
Get(d, k, default) == IF k \in DOMAIN d THEN d[k] ELSE default

(***************************************************************************)
(* Routes                                                                  *)
(***************************************************************************)
\* POST /queue: 404 and 400 change nothing.  Paths are accepted while tasks
\* remain for them within MaxTasks.
AddToQueue(raw) ==
    /\ next_id + Len(queue) < MaxTasks
    /\ queue' = IF PathExists(raw) /\ PathIsDir(raw)
                THEN Enqueue(queue, PathStr(raw))
                ELSE queue
    /\ UNCHANGED <<current_tasks, task_history, api, prog, lck, conc>>

\* DELETE /queue
ClearQueueRoute ==
    /\ queue' = ClearQueue(queue)
    /\ UNCHANGED <<current_tasks, task_history, api, prog, lck, conc>>

\* POST /task/clear
ClearTasksRoute ==
    /\ current_tasks' = ClearTasks.ct
    /\ task_history' = ClearTasks.th
    /\ cleared' = cleared \cup (Keys(current_tasks) \cup HistoryIds)
    /\ UNCHANGED <<queue, api, legacy_available, old_tasks, next_id, pq, rpc, bexc, rexc,
                   recon_calls, lck, conc>>

\* mutant: an empty queue is not rejected, the loop runs no turn
ProcessQueueStart_NoCheck(opts) ==
    /\ pq.pc \in {"idle", "returned"}
    /\ next_id + Len(queue) <= MaxTasks
    /\ pq' = [PqIdle EXCEPT !.pc = IF GetQueue(queue) = <<>> THEN "clear" ELSE "loop",
                            !.queue = GetQueue(queue), !.opts = opts]
    /\ UNCHANGED <<mgr, api, legacy_available, old_tasks, next_id, rpc, bexc, rexc,
                   recon_calls, cleared, lck, conc>>

\* POST /process-queue, up to the first upsert_task: get_queue, 400 when it is empty
ProcessQueueStart(opts) ==
    /\ pq.pc \in {"idle", "returned"}
    /\ next_id + Len(queue) <= MaxTasks
    /\ pq' = IF GetQueue(queue) = <<>>
             THEN [PqIdle EXCEPT !.pc = "returned", !.resp = 400]
             ELSE [PqIdle EXCEPT !.pc = "loop", !.queue = GetQueue(queue), !.opts = opts]
    /\ UNCHANGED <<mgr, api, legacy_available, old_tasks, next_id, rpc, bexc, rexc,
                   recon_calls, cleared, lck, conc>>

\* mutant: the record is created already running
NewTask_Running(task_id, folder_path, opts, now) ==
    TaskState(task_id, folder_path, "running", 1, "Queued", now,
              opts.include_excluded, opts.joint_mode, opts.post_validate, NoError)

\* the record process_queue builds for a queued folder
NewTask(task_id, folder_path, opts, now) ==
    TaskState(task_id, folder_path, "pending", 0, "Queued", now,
              opts.include_excluded, opts.joint_mode, opts.post_validate, NoError)

\* one turn of the loop: upsert_task, add_task, task_ids.append
ProcessQueueUpsert ==
    /\ pq.pc = "loop"
    /\ LET task_id == next_id + 1
           t == NewTask(task_id, pq.queue[pq.i], pq.opts, next_id + 1)
       IN  /\ current_tasks' = UpsertTask(current_tasks, t)
           /\ next_id' = task_id
           /\ pq' = [pq EXCEPT !.task_ids = Append(@, task_id),
                               !.i = @ + 1,
                               !.pc = IF pq.i = Len(pq.queue) THEN "clear" ELSE "loop"]
    /\ UNCHANGED <<queue, task_history, api, legacy_available, old_tasks, rpc, bexc, rexc,
                   recon_calls, cleared, lck, conc>>

\* clear_queue and the response; the background tasks added start after it
ProcessQueueFinish ==
    /\ pq.pc = "clear"
    /\ queue' = ClearQueue(queue)
    /\ pq' = [PqIdle EXCEPT !.pc = "returned", !.resp = 200, !.task_ids = pq.task_ids]
    /\ rpc' = [t \in TaskIds |-> IF InList(t, pq.task_ids) THEN "start" ELSE rpc[t]]
    /\ UNCHANGED <<current_tasks, task_history, api, legacy_available, old_tasks, next_id,
                   bexc, rexc, recon_calls, cleared, lck, conc>>

(***************************************************************************)
(* _runner and run_process_folder_task                                     *)
(***************************************************************************)
\* mutant: the runner calls the bridge without marking the task running
RunnerStart_NoMark(t) ==
    /\ rpc[t] = "start"
    /\ IF legacy_available
       THEN /\ rpc' = [rpc EXCEPT ![t] = "snapshot"]
            /\ rexc' = rexc
       ELSE /\ rpc' = [rpc EXCEPT ![t] = "final"]
            /\ rexc' = [rexc EXCEPT ![t] = Unavailable]
    /\ UNCHANGED <<mgr, api, legacy_available, old_tasks, next_id, pq, bexc,
                   recon_calls, cleared, lck, conc>>

\* mutant: the bridge does not look whether the legacy module was imported
RunnerStart_NoCheck(t) ==
    /\ rpc[t] = "start"
    /\ LET r == SetTaskStatus(current_tasks, task_history, t, "running",
                              "Processing started", 1, NoError)
       IN  /\ current_tasks' = r.ct
           /\ task_history' = r.th
    /\ rpc' = [rpc EXCEPT ![t] = "snapshot"]
    /\ UNCHANGED <<queue, api, legacy_available, old_tasks, next_id, pq, bexc, rexc,
                   recon_calls, cleared, lck, conc>>

\* _runner: the "running" mark; then the bridge up to list_tasks, or its
\* RuntimeError when the legacy module is missing
RunnerStart(t) ==
    /\ rpc[t] = "start"
    /\ LET r == SetTaskStatus(current_tasks, task_history, t, "running",
                              "Processing started", 1, NoError)
       IN  /\ current_tasks' = r.ct
           /\ task_history' = r.th
    /\ IF legacy_available
       THEN /\ rpc' = [rpc EXCEPT ![t] = "snapshot"]
            /\ rexc' = rexc
       ELSE /\ rpc' = [rpc EXCEPT ![t] = "final"]
            /\ rexc' = [rexc EXCEPT ![t] = Unavailable]
    /\ UNCHANGED <<queue, api, legacy_available, old_tasks, next_id, pq, bexc,
                   recon_calls, cleared, lck, conc>>

\* the dict the bridge writes for a record of the canonical manager
SnapshotEntry(task) ==
    [task_id |-> task.task_id, status |-> task.status, progress |-> task.progress,
     message |-> task.message, folder_path |-> task.folder_path,
     created_at |-> task.created_at, include_excluded |-> task.include_excluded]

\* the bridge: list_tasks, the snapshot when the task is listed, the engine called
BridgeSnapshot(t) ==
    /\ rpc[t] = "snapshot"
    /\ LET tasks == ListTasks(current_tasks)
       IN  old_tasks' = IF HasKey(tasks, t)
                        THEN Put(old_tasks, t, SnapshotEntry(DictGet(tasks, t)))
                        ELSE old_tasks
    /\ rpc' = [rpc EXCEPT ![t] = "engine"]
    /\ UNCHANGED <<mgr, api, legacy_available, next_id, pq, bexc, rexc, recon_calls, cleared, lck, conc>>

(***************************************************************************)
(* The external engine: what it may have done to its own state for the     *)
(* task when its call ends.                                                *)
(***************************************************************************)
\* (what the engine did to its entry, str(e) of what it raised or NoExc):
\*   it left the snapshot as it was and returned, or raised Exception()
\*   it recorded done at 100 and returned, or raised after that
\*   it removed its entry and returned
\*   it left an entry with neither status, message nor progress and returned
\*   it recorded running at 40 and raised
\*   it recorded an empty message and no progress (None) and returned
EngineOutcomes ==
    {<<"untouched", NoExc>>, <<"untouched", "">>,
     <<"done", NoExc>>, <<"done", "boom">>,
     <<"deleted", NoExc>>,
     <<"bare", NoExc>>,
     <<"partial", "boom">>,
     <<"blank", NoExc>>}

\* d[task_id].update(fields), the entry made when there is none
UpdateEntry(d, t, fields) ==
    Put(d, t, [k \in DOMAIN Get(d, t, EmptyDict) \cup DOMAIN fields |->
                  IF k \in DOMAIN fields THEN fields[k] ELSE d[t][k]])

EngineWrite(d, t, w) ==
    CASE w = "untouched" -> d
      [] w = "done"      -> UpdateEntry(d, t, [status |-> "done", progress |-> 100])
      [] w = "partial"   -> UpdateEntry(d, t, [status |-> "running", progress |-> 40])
      [] w = "deleted"   -> Remove(d, t)
      [] w = "bare"      -> Put(d, t, [task_id |-> t])
      [] w = "blank"     -> UpdateEntry(d, t, [message |-> "", progress |-> NoProgress])

\* the awaited engine call ends: it returns (e = NoExc) or raises e
EngineEnd(t, w, e) ==
    /\ rpc[t] = "engine"
    /\ old_tasks' = EngineWrite(old_tasks, t, w)
    /\ bexc' = [bexc EXCEPT ![t] = e]
    /\ rpc' = [rpc EXCEPT ![t] = "reconcile"]
    /\ UNCHANGED <<mgr, api, legacy_available, next_id, pq, rexc, recon_calls, cleared, lck, conc>>

\* mutant: the external entry is not read, the fallback is always taken
ReconcileCalls_FallbackOnly(d, t) ==
    <<[status |-> "completed", message |-> "Processing finished successfully",
       progress |-> 100, error |-> NoError]>>

\* mutant: no fallback when the external entry is missing
ReconcileCalls_NoFallback(d, t) ==
    IF HasEntry(d, t)
    THEN <<[status |-> Get(d[t], "status", "error"),
            message |-> Get(d[t], "message", "Completed"),
            progress |-> Get(d[t], "progress", 100),
            error |-> Get(d[t], "error", NoError)]>>
    ELSE <<>>

\* mutant: an entry with no status counts as done
ReconcileCalls_DefaultDone(d, t) ==
    IF HasEntry(d, t)
    THEN <<[status |-> Get(d[t], "status", "done"),
            message |-> Get(d[t], "message", "Completed"),
            progress |-> Get(d[t], "progress", 100),
            error |-> Get(d[t], "error", NoError)]>>
    ELSE <<[status |-> "completed", message |-> "Processing finished successfully",
            progress |-> 100, error |-> NoError]>>

\* the finally block: the set_task_status calls it issues, as argument tuples
ReconcileCalls(d, t) ==
    IF HasEntry(d, t)
    THEN <<[status |-> Get(d[t], "status", "error"),
            message |-> Get(d[t], "message", "Completed"),
            progress |-> Get(d[t], "progress", 100),
            error |-> Get(d[t], "error", NoError)]>>
    ELSE IF ~HasEntry(d, t)
    THEN <<[status |-> "completed", message |-> "Processing finished successfully",
            progress |-> 100, error |-> NoError]>>
    ELSE <<>>

\* the manager after the calls of the list, in order
RECURSIVE ApplyCalls(_, _, _, _)
ApplyCalls(ct, th, t, calls) ==
    IF calls = <<>> THEN [ct |-> ct, th |-> th]
    ELSE LET c == Head(calls)
             r == SetTaskStatus(ct, th, t, c.status, c.message, c.progress, c.error)
         IN  ApplyCalls(r.ct, r.th, t, Tail(calls))

\* the finally block runs, then the bridge returns or re-raises to _runner
Reconcile(t) ==
    /\ rpc[t] = "reconcile"
    /\ LET calls == ReconcileCalls(old_tasks, t)
           r == ApplyCalls(current_tasks, task_history, t, calls)
       IN  /\ current_tasks' = r.ct
           /\ task_history' = r.th
           /\ recon_calls' = [recon_calls EXCEPT ![t] = @ + Len(calls)]
    /\ rexc' = [rexc EXCEPT ![t] = bexc[t]]
    /\ bexc' = [bexc EXCEPT ![t] = NoExc]
    /\ rpc' = [rpc EXCEPT ![t] = "final"]
    /\ UNCHANGED <<queue, api, legacy_available, old_tasks, next_id, pq, cleared, lck, conc>>

\* mutant: the runner ends with the statuses "completed" and "failed"
FinalCall_Completed(e) ==
    IF e = NoExc
    THEN [status |-> "completed", message |-> "Ready", progress |-> 100, error |-> NoError]
    ELSE [status |-> "failed", message |-> "Failure", progress |-> NoProgress, error |-> e]

\* the arguments of _runner's last set_task_status: "done", or "error" with str(e)
FinalCall(e) ==
    IF e = NoExc
    THEN [status |-> "done", message |-> "Ready", progress |-> 100, error |-> NoError]
    ELSE [status |-> "error", message |-> "Failure", progress |-> NoProgress, error |-> e]

RunnerFinal(t) ==
    /\ rpc[t] = "final"
    /\ LET c == FinalCall(rexc[t])
           r == SetTaskStatus(current_tasks, task_history, t, c.status, c.message,
                              c.progress, c.error)
       IN  /\ current_tasks' = r.ct
           /\ task_history' = r.th
    /\ rpc' = [rpc EXCEPT ![t] = "finished"]
    /\ rexc' = [rexc EXCEPT ![t] = NoExc]
    /\ UNCHANGED <<queue, api, legacy_available, old_tasks, next_id, pq, bexc,
                   recon_calls, cleared, lck, conc>>

RunnerStep(t) ==
    \/ RunnerStart(t)
    \/ BridgeSnapshot(t)
    \/ \E o \in EngineOutcomes : EngineEnd(t, o[1], o[2])
    \/ Reconcile(t)
    \/ RunnerFinal(t)

Next ==
    \/ \E raw \in RawPaths : AddToQueue(raw)
    \/ ClearQueueRoute
    \/ ClearTasksRoute
    \/ \E opts \in QueryOptions : ProcessQueueStart(opts)
    \/ ProcessQueueUpsert
    \/ ProcessQueueFinish
    \/ \E t \in TaskIds : RunnerStep(t)

Spec == Init /\ [][Next]_vars

\* the request handler and the runners are scheduled as long as they can run, and
\* an engine call that was started ends
Fairness ==
    /\ WF_vars(ProcessQueueUpsert)
    /\ WF_vars(ProcessQueueFinish)
    /\ \A t \in TaskIds : WF_vars(RunnerStep(t))

FairSpec == Init /\ [][Next]_vars /\ Fairness

(***************************************************************************)
(* The bridge's scenarios, read from the external state after the engine   *)
(* call.                                                                   *)
(***************************************************************************)
\* the task was created and no clear_tasks has dropped it
Kept(t) == t <= next_id /\ t \notin cleared

\* the bridge of t has run its finally block and ended
BridgeEnded(t) == rpc[t] \in {"final", "finished"} /\ recon_calls[t] > 0

\* the places of the records of t in task_history
HistoryPlaces(t) == {i \in 1..Len(task_history) : task_history[i].task_id = t}

ScenarioA(t) ==
    /\ HasEntry(old_tasks, t)
    /\ Get(old_tasks[t], "status", "") = "done"
    /\ Get(old_tasks[t], "progress", NoProgress) = 100

ScenarioB(t) == ~HasEntry(old_tasks, t)

ScenarioC(t) ==
    /\ HasEntry(old_tasks, t)
    /\ Get(old_tasks[t], "status", "") = "running"
    /\ Get(old_tasks[t], "progress", NoProgress) = 40

(***************************************************************************)
(* C6 (as stated): when the bridge has ended for a task whose external     *)
(* entry is missing after the engine call, the task is in task_history     *)
(* with status "completed", progress 100 and the completion message, and   *)
(* not in current_tasks.                                                   *)
(***************************************************************************)
C6_ScenarioB_InHistory ==
    \A t \in TaskIds :
        (rpc[t] = "final" /\ recon_calls[t] > 0 /\ ScenarioB(t) /\ Kept(t)) =>
            /\ ~HasKey(current_tasks, t)
            /\ \E i \in HistoryPlaces(t) :
                  /\ task_history[i].status = "completed"
                  /\ task_history[i].progress = 100
                  /\ task_history[i].message = "Processing finished successfully"

(***************************************************************************)
(* C7: when the bridge has ended for a task whose external entry says done *)
(* at 100, the task has one record in task_history, with status "done" and *)
(* progress 100, and none in current_tasks; the runner's last write leaves *)
(* current_tasks and task_history as they are.                             *)
(***************************************************************************)
C7_ScenarioA_State ==
    \A t \in TaskIds :
        (BridgeEnded(t) /\ ScenarioA(t) /\ Kept(t)) =>
            /\ ~HasKey(current_tasks, t)
            /\ Cardinality(HistoryPlaces(t)) = 1
            /\ \A i \in HistoryPlaces(t) :
                  /\ task_history[i].status = "done"
                  /\ task_history[i].progress = 100

C7_ScenarioA_Done ==
    /\ []C7_ScenarioA_State
    /\ [][\A t \in TaskIds :
            (RunnerFinal(t) /\ recon_calls[t] > 0 /\ ScenarioA(t) /\ Kept(t)) =>
                /\ task_history' = task_history
                /\ current_tasks' = current_tasks]_vars

C7_Witness ==
    \E t \in TaskIds :
        /\ rpc[t] = "finished"
        /\ ScenarioA(t)
        /\ Kept(t)
        /\ HistoryPlaces(t) # {}

(***************************************************************************)
(* C8: when the engine has recorded running at 40 and raised, the          *)
(* exception has not reached _runner while the finally block is still to   *)
(* run; when it has reached _runner the active record has status           *)
(* "running" and progress 40; and what reaches _runner is the exception    *)
(* the engine raised.                                                      *)
(***************************************************************************)
C8_ScenarioC_State ==
    \A t \in TaskIds :
        /\ rpc[t] \in {"engine", "reconcile"} => rexc[t] = NoExc
        /\ (rpc[t] = "final" /\ recon_calls[t] > 0 /\ rexc[t] # NoExc
              /\ ScenarioC(t) /\ Kept(t)) =>
               /\ HasKey(current_tasks, t)
               /\ DictGet(current_tasks, t).status = "running"
               /\ DictGet(current_tasks, t).progress = 40
               /\ HistoryPlaces(t) = {}

C8_ScenarioC_ReconciledBeforeRaise ==
    /\ []C8_ScenarioC_State
    /\ [][\A t \in TaskIds :
            (rpc[t] = "reconcile" /\ rpc'[t] # "reconcile") =>
                /\ rpc'[t] = "final"
                /\ rexc'[t] = bexc[t]]_vars

C8_Witness ==
    \E t \in TaskIds :
        /\ rpc[t] = "final"
        /\ rexc[t] = "boom"
        /\ ScenarioC(t)
        /\ HasKey(current_tasks, t)
        /\ DictGet(current_tasks, t).progress = 40

(***************************************************************************)
(* C9: once the engine has been invoked for a task, the bridge issues      *)
(* exactly one set_task_status call after the engine call ended and before *)
(* it returns or raises, whatever the engine did; none before that.        *)
(***************************************************************************)
C9_ReconciledOnce ==
    \A t \in TaskIds :
        /\ rpc[t] \in {"none", "start", "snapshot", "engine", "reconcile"} =>
              recon_calls[t] = 0
        /\ rpc[t] \in {"final", "finished"} =>
              recon_calls[t] = IF legacy_available THEN 1 ELSE 0

\* a bridge that ended by raising and one that ended with no external entry
C9_Witness ==
    \E t, u \in TaskIds :
        /\ rpc[t] = "final" /\ rexc[t] = "boom" /\ recon_calls[t] = 1
        /\ rpc[u] = "final" /\ rexc[u] = NoExc /\ ScenarioB(u) /\ recon_calls[u] = 1

EndedInHistory(t) ==
    /\ ~HasKey(current_tasks, t)
    /\ HistoryPlaces(t) # {}
    /\ \A i \in HistoryPlaces(t) : task_history[i].status \in {"done", "error"}

C11_TwoPathsTwoPendingTasks ==
    [][(ProcessQueueFinish /\ Len(pq.task_ids) = 2 /\ next_id = 2 /\ cleared = {}) =>
          /\ pq'.pc = "returned"
          /\ pq'.resp = 200
          /\ Len(pq'.task_ids) = 2
          /\ pq'.task_ids[1] # pq'.task_ids[2]
          /\ pq.queue[1] # pq.queue[2]
          /\ queue' = <<>>
          /\ Len(current_tasks') = 2
          /\ \A i \in 1..2 :
                /\ current_tasks'[i].task_id = pq'.task_ids[i]
                /\ current_tasks'[i].folder_path = pq.queue[i]
                /\ current_tasks'[i].status = "pending"
                /\ current_tasks'[i].progress = 0
          /\ task_history' = <<>>
          /\ \A t \in TaskIds : rpc[t] = "none"
          /\ \A i \in 1..2 : rpc'[pq'.task_ids[i]] = "start"]_vars

\* the request has returned its two identifiers and no runner has run
C11_Witness ==
    /\ pq.pc = "returned"
    /\ pq.resp = 200
    /\ Len(pq.task_ids) = 2
    /\ queue = <<>>
    /\ Len(current_tasks) = 2
    /\ current_tasks[1].folder_path = "a"
    /\ current_tasks[2].folder_path = "b"
    /\ \A t \in {1, 2} : rpc[t] = "start"
    /\ cleared = {}

(***************************************************************************)
(* C12 (as stated): the clear_queue call that ends a process_queue request *)
(* removes from the queue only paths for which the request has created a   *)
(* task, whatever enqueue requests ran between its manager calls.          *)
(***************************************************************************)
C12_DrainLosesNoPath ==
    [][ProcessQueueFinish =>
          \A i \in 1..Len(queue) : InList(queue[i], pq.queue)]_vars

(***************************************************************************)
(* C15: when the legacy module was not imported, the bridge raises its     *)
(* RuntimeError at once: the external state stays empty, the bridge never  *)
(* reaches its list_tasks call, the engine call or the finally block, and  *)
(* what _runner reports is that RuntimeError.                              *)
(***************************************************************************)
C15_UnavailableState ==
    ~legacy_available =>
        /\ old_tasks = EmptyDict
        /\ \A t \in TaskIds :
              /\ rpc[t] \notin {"snapshot", "engine", "reconcile"}
              /\ recon_calls[t] = 0
              /\ bexc[t] = NoExc
              /\ rpc[t] = "final" => rexc[t] = Unavailable

C15_UnavailableFailsAtOnce ==
    /\ []C15_UnavailableState
    /\ [][\A t \in TaskIds :
            (rpc[t] = "start" /\ rpc'[t] # "start" /\ ~legacy_available) =>
                /\ rpc'[t] = "final"
                /\ rexc'[t] = Unavailable
                /\ old_tasks' = old_tasks]_vars

\* the bridge has raised its RuntimeError and the record is as _runner marked it
C15_Witness ==
    \E t \in TaskIds :
        /\ ~legacy_available
        /\ rpc[t] = "final"
        /\ rexc[t] = Unavailable
        /\ HasKey(current_tasks, t)
        /\ DictGet(current_tasks, t).status = "running"

(***************************************************************************)
(* C16 (as stated): list_tasks returns the records of current_tasks, none  *)
(* of them a record of task_history, and none with a terminal status       *)
(* (done, completed or error).                                             *)
(***************************************************************************)
C16_ListedNotTerminal ==
    /\ ListTasks(current_tasks) = current_tasks
    /\ \A i \in 1..Len(ListTasks(current_tasks)) :
          /\ ListTasks(current_tasks)[i].task_id \notin HistoryIds
          /\ ListTasks(current_tasks)[i].status \notin {"done", "completed", "error"}

(***************************************************************************)
(* C17 (as stated): when the runner of a task whose engine call raised     *)
(* finishes, the task (if no clear_tasks dropped it) is in task_history    *)
(* with status "error" and a non-empty error; a runner that finished stays *)
(* finished and no runner step enqueues a path.                            *)
(***************************************************************************)
C17_FailedTaskEndsError ==
    /\ [][\A t \in TaskIds :
            (RunnerFinal(t) /\ legacy_available /\ rexc[t] # NoExc /\ Kept(t)) =>
                /\ ~HasKey(current_tasks', t)
                /\ \E i \in 1..Len(task_history') :
                      /\ task_history'[i].task_id = t
                      /\ task_history'[i].status = "error"
                      /\ task_history'[i].error \notin {NoError, ""}]_vars
    /\ [][\A t \in TaskIds : rpc[t] = "finished" => rpc'[t] = "finished"]_vars
    /\ [][\A t \in TaskIds : RunnerStep(t) => queue' = queue]_vars

(***************************************************************************)
(* C18: a process_queue request that finds the queue empty returns 400,    *)
(* creates no record, schedules no runner, leaves queue, current_tasks and *)
(* task_history as they are, and takes no further step.                    *)
(***************************************************************************)
C18_EmptyQueueRejected ==
    /\ [][\A opts \in QueryOptions :
            (ProcessQueueStart(opts) /\ queue = <<>>) =>
                /\ pq'.pc = "returned"
                /\ pq'.resp = 400
                /\ pq'.task_ids = <<>>
                /\ UNCHANGED <<queue, current_tasks, task_history, next_id, rpc>>]_vars
    /\ [][pq.resp = 400 => ~(ProcessQueueUpsert \/ ProcessQueueFinish)]_vars

\* a request rejected while records of an earlier batch are stored
C18_Witness ==
    /\ pq.pc = "returned"
    /\ pq.resp = 400
    /\ queue = <<>>
    /\ Len(current_tasks) + Len(task_history) > 0

(***************************************************************************)
(* C21 (as stated): the bridge's snapshot step writes, for a task that     *)
(* list_tasks returns, an external entry under the task's identifier with  *)
(* the record's status, progress, message, folder path, creation time and  *)
(* its three options (include_excluded, joint_mode, post_validate); for a  *)
(* task that list_tasks does not return it writes nothing.                 *)
(***************************************************************************)
C21_SnapshotCarriesRecord ==
    [][\A t \in TaskIds : BridgeSnapshot(t) =>
          IF HasKey(current_tasks, t)
          THEN /\ HasEntry(old_tasks', t)
               /\ LET e == old_tasks'[t]
                      r == DictGet(current_tasks, t)
                  IN  /\ e.task_id = t
                      /\ e.status = r.status
                      /\ e.progress = r.progress
                      /\ e.message = r.message
                      /\ e.folder_path = r.folder_path
                      /\ e.created_at = r.created_at
                      /\ e.include_excluded = r.include_excluded
                      /\ "joint_mode" \in DOMAIN e
                      /\ "post_validate" \in DOMAIN e
                      /\ e.joint_mode = r.joint_mode
                      /\ e.post_validate = r.post_validate
          ELSE old_tasks' = old_tasks]_vars

\* the record stored for t, in current_tasks or else in task_history
Stored(ct, th, t) ==
    IF HasKey(ct, t) THEN DictGet(ct, t)
    ELSE th[CHOOSE i \in 1..Len(th) : th[i].task_id = t]

IsPrefix(a, b) == Len(a) <= Len(b) /\ SubSeq(b, 1, Len(a)) = a

(***************************************************************************)
(* C23: every record of task_history has status "done" or "error"; a step  *)
(* either leaves the records of task_history as they are and appends at    *)
(* most one record, or is a clear_tasks call that empties it; and the last *)
(* write of a runner whose task is already in task_history changes neither *)
(* task_history nor current_tasks.                                         *)
(***************************************************************************)
C23_HistoryAppendOnly ==
    /\ [](\A i \in 1..Len(task_history) : task_history[i].status \in {"done", "error"})
    /\ [][\/ /\ IsPrefix(task_history, task_history')
              /\ Len(task_history') <= Len(task_history) + 1
           \/ /\ ClearTasksRoute \/ ApiClearTasks
              /\ task_history' = <<>>]_vars
    /\ [][\A t \in TaskIds :
            (RunnerFinal(t) /\ HistoryPlaces(t) # {}) =>
                /\ task_history' = task_history
                /\ current_tasks' = current_tasks]_vars

\* the engine returned, the finally block recorded "error" for an entry with no
\* status, and the runner's "done" write has been made
C23_Witness ==
    \E t \in TaskIds :
        /\ rpc[t] = "finished"
        /\ HasEntry(old_tasks, t)
        /\ "status" \notin DOMAIN old_tasks[t]
        /\ HistoryPlaces(t) # {}
        /\ \A i \in HistoryPlaces(t) :
              task_history[i].status = "error" /\ task_history[i].message = "Completed"

(***************************************************************************)
(* C24: no identifier has two records in task_history.                     *)
(***************************************************************************)
C24_OnceInHistory ==
    \A t \in TaskIds : Cardinality(HistoryPlaces(t)) <= 1

\* two tasks ended, one recorded done by the finally block before its engine
\* call raised, and both runners have made their last write
C24_Witness ==
    /\ Len(task_history) = 2
    /\ \A t \in {1, 2} : rpc[t] = "finished" /\ Cardinality(HistoryPlaces(t)) = 1
    /\ \E t \in {1, 2} : ScenarioA(t)
    /\ \E t \in {1, 2} : Stored(current_tasks, task_history, t).status = "error"

\* the identifiers that have a record in current_tasks or in task_history
StoredIds(ct, th) == Keys(ct) \cup {th[i].task_id : i \in 1..Len(th)}

(***************************************************************************)
(* C25: every identifier in current_tasks or task_history was inserted by  *)
(* process_queue's upsert_task and not dropped by a clear_tasks call       *)
(* since; no step of a runner or of the bridge adds an identifier to       *)
(* them, and an identifier that clear_tasks dropped stays dropped: the     *)
(* status writes made for it afterwards change nothing.                    *)
(***************************************************************************)
C25_NoRecordCreatedByWrites ==
    /\ [](\A t \in StoredIds(current_tasks, task_history) : Kept(t))
    /\ [][cleared \subseteq cleared']_vars
    /\ [][\A t \in TaskIds : RunnerStep(t) =>
            /\ StoredIds(current_tasks', task_history')
                   \subseteq StoredIds(current_tasks, task_history)
            /\ t \in cleared => (current_tasks' = current_tasks
                                   /\ task_history' = task_history)]_vars

\* clear_tasks dropped the task before the bridge took its snapshot (the entry
\* the engine left has no folder_path), and the finally block and the runner
\* have made their writes since
C25_Witness ==
    \E t \in TaskIds :
        /\ t \in cleared
        /\ rpc[t] = "finished"
        /\ HasEntry(old_tasks, t)
        /\ "folder_path" \notin DOMAIN old_tasks[t]
        /\ Get(old_tasks[t], "status", "") = "done"
        /\ t \notin StoredIds(current_tasks, task_history)

(***************************************************************************)
(* C26: when the bridge takes its snapshot of a task that is still active, *)
(* and while the engine call for it is under way, the canonical record has *)
(* status "running" at progress 1, not "pending"; the status of an         *)
(* external entry is never "pending".                                      *)
(***************************************************************************)
C26_State ==
    \A t \in TaskIds :
        /\ (rpc[t] \in {"snapshot", "engine"} /\ HasKey(current_tasks, t)) =>
              /\ DictGet(current_tasks, t).status = "running"
              /\ DictGet(current_tasks, t).progress = 1
        /\ (HasEntry(old_tasks, t) /\ "status" \in DOMAIN old_tasks[t]) =>
              old_tasks[t].status # "pending"

C26_RunningBeforeEngine ==
    /\ []C26_State
    /\ [][\A t \in TaskIds :
            (BridgeSnapshot(t) /\ HasKey(current_tasks, t)) =>
                /\ old_tasks'[t].status = "running"
                /\ old_tasks'[t].progress = 1]_vars

\* the engine call of an active task is under way
C26_Witness ==
    \E t \in TaskIds :
        /\ rpc[t] = "engine"
        /\ HasKey(current_tasks, t)
        /\ DictGet(current_tasks, t).status = "running"
        /\ HasEntry(old_tasks, t)
        /\ old_tasks[t].status = "running"
        /\ old_tasks[t].progress = 1

(***************************************************************************)
(* SpecDrain: POST /queue and concurrent POST /process-queue requests, a   *)
(* request being suspended at each manager call it awaits.  The runners    *)
(* the requests schedule are left out: current_tasks holds every record    *)
(* the requests have created.                                              *)
(***************************************************************************)
\* the directories the requests name
DrainPaths == {"a", "b"}

\* POST /queue with an existing directory
DrainAddToQueue(p) ==
    /\ Len(accepted) < MaxAccepted
    /\ queue' = Enqueue(queue, p)
    /\ accepted' = IF InList(p, queue) THEN accepted ELSE Append(accepted, p)
    /\ UNCHANGED <<current_tasks, task_history, api, prog, lck, reqs>>

\* request r: get_queue, 400 when it is empty
DrainStart(r, opts) ==
    /\ reqs[r].pc \in {"idle", "returned"}
    /\ reqs' = [reqs EXCEPT ![r] =
                  IF GetQueue(queue) = <<>>
                  THEN [PqIdle EXCEPT !.pc = "returned", !.resp = 400]
                  ELSE [PqIdle EXCEPT !.pc = "loop", !.queue = GetQueue(queue),
                                      !.opts = opts]]
    /\ UNCHANGED <<mgr, api, prog, lck, accepted>>

\* request r: one turn of the loop: upsert_task, add_task, task_ids.append
DrainUpsert(r) ==
    /\ reqs[r].pc = "loop"
    /\ LET task_id == next_id + 1
           t == NewTask(task_id, reqs[r].queue[reqs[r].i], reqs[r].opts, next_id + 1)
       IN  /\ current_tasks' = UpsertTask(current_tasks, t)
           /\ next_id' = task_id
           /\ reqs' = [reqs EXCEPT ![r].task_ids = Append(@, task_id),
                                   ![r].i = @ + 1,
                                   ![r].pc = IF reqs[r].i = Len(reqs[r].queue)
                                             THEN "clear" ELSE "loop"]
    /\ UNCHANGED <<queue, task_history, api, legacy_available, old_tasks, pq, rpc, bexc,
                   rexc, recon_calls, cleared, lck, accepted>>

\* request r: clear_queue and the response
DrainFinish(r) ==
    /\ reqs[r].pc = "clear"
    /\ queue' = ClearQueue(queue)
    /\ reqs' = [reqs EXCEPT ![r] =
                  [PqIdle EXCEPT !.pc = "returned", !.resp = 200,
                                 !.task_ids = reqs[r].task_ids]]
    /\ UNCHANGED <<current_tasks, task_history, api, prog, lck, accepted>>

DrainNext ==
    \/ \E p \in DrainPaths : DrainAddToQueue(p)
    \/ \E r \in Requests :
          \/ \E opts \in QueryOptions : DrainStart(r, opts)
          \/ DrainUpsert(r)
          \/ DrainFinish(r)

SpecDrain == ApiInit /\ [][DrainNext]_vars

\* the number of places of l that hold x
Occurrences(x, l) == Cardinality({i \in 1..Len(l) : l[i] = x})

\* the number of records created for the folder p
TasksFor(p) == Cardinality({i \in 1..Len(current_tasks) : current_tasks[i].folder_path = p})

(***************************************************************************)
(* C13 (as stated): the requests never create more records (and runners)   *)
(* for a path than the number of times the path was put into the queue:    *)
(* no queued occurrence of a path gets two tasks.                          *)
(***************************************************************************)
C13_OneTaskPerQueuedPath ==
    \A p \in DrainPaths : TasksFor(p) <= Occurrences(p, accepted)

(***************************************************************************)
(* SpecLock: concurrent callers of the manager, one statement of a method  *)
(* body per step, each body entered through "async with self._lock".       *)
(***************************************************************************)
Call(op, task_id, folder_path, status, message, progress, error) ==
    [op |-> op, task_id |-> task_id, folder_path |-> folder_path, status |-> status,
     message |-> message, progress |-> progress, error |-> error]

\* the calls the callers make
LockCalls ==
    {Call("enqueue", 0, "a", "", "", NoProgress, NoError),
     Call("get_queue", 0, "", "", "", NoProgress, NoError),
     Call("clear_queue", 0, "", "", "", NoProgress, NoError),
     Call("list_tasks", 0, "", "", "", NoProgress, NoError),
     Call("clear_tasks", 0, "", "", "", NoProgress, NoError)}
    \cup {Call("upsert_task", id, "a", "", "", NoProgress, NoError) : id \in ApiIds}
    \cup {Call("set_task_status", id, "", st, "msg", 40, NoError) :
             id \in ApiIds, st \in {"running", "done"}}

\* the first statement of the body of a method
FirstLine(op) ==
    CASE op = "enqueue" -> "l40"
      [] op = "get_queue" -> "l46"
      [] op = "clear_queue" -> "l51"
      [] op = "upsert_task" -> "l56"
      [] op = "set_task_status" -> "l68"
      [] op = "list_tasks" -> "l88"
      [] op = "clear_tasks" -> "l93"

\* a caller calls a method and queues for the lock; the model draws the method
\* and its arguments where they are first read, at the entry of the body
CallMethod(c) ==
    /\ cpc[c] = "idle"
    /\ cpc' = [cpc EXCEPT ![c] = "acquire"]
    /\ waiters' = Append(waiters, c)
    /\ UNCHANGED <<mgr, api, prog, conc, lock, cop, entry>>

\* mutant: the body is entered whether the lock is held or not
CanAcquire_Unguarded(c) == waiters # <<>> /\ Head(waiters) = c

\* asyncio.Lock.acquire: the lock is free and the caller is the first waiter
CanAcquire(c) == lock = Unlocked /\ waiters # <<>> /\ Head(waiters) = c

\* async with self._lock: entry.  Records are added while fewer than
\* MaxRecords are stored.
Acquire(c, call) ==
    /\ cpc[c] = "acquire"
    /\ CanAcquire(c)
    /\ call.op = "upsert_task" =>
          Len(current_tasks) + Len(task_history) < MaxRecords
    /\ lock' = c
    /\ waiters' = SelectSeq(waiters, LAMBDA w : w # c)
    /\ cop' = [cop EXCEPT ![c] = call]
    /\ cpc' = [cpc EXCEPT ![c] = FirstLine(call.op)]
    /\ entry' = [queue |-> queue, current_tasks |-> current_tasks, task_history |-> task_history]
    /\ UNCHANGED <<mgr, api, prog, conc>>

\* the caller goes on to the statement at label
Goto(c, label) == cpc' = [cpc EXCEPT ![c] = label]

\* enqueue: if folder_path not in self.queue
Enqueue40(c) ==
    /\ cpc[c] = "l40"
    /\ Goto(c, IF ~InList(cop[c].folder_path, queue) THEN "l41" ELSE "exit")
    /\ UNCHANGED <<mgr, api, prog, conc, lock, waiters, cop, entry>>

\* enqueue: self.queue.append(folder_path)
Enqueue41(c) ==
    /\ cpc[c] = "l41"
    /\ queue' = Append(queue, cop[c].folder_path)
    /\ Goto(c, "exit")
    /\ UNCHANGED <<current_tasks, task_history, api, prog, conc, lock, waiters, cop, entry>>

\* get_queue: return list(self.queue)
GetQueue46(c) ==
    /\ cpc[c] = "l46"
    /\ got_queue' = GetQueue(queue)
    /\ Goto(c, "exit")
    /\ got_shared' = ReturnsStored(cop[c].op)
    /\ UNCHANGED <<mgr, enq_log, prog, conc, lock, waiters, cop, entry>>

\* clear_queue: self.queue.clear()
ClearQueue51(c) ==
    /\ cpc[c] = "l51"
    /\ queue' = ClearQueue(queue)
    /\ Goto(c, "exit")
    /\ UNCHANGED <<current_tasks, task_history, api, prog, conc, lock, waiters, cop, entry>>

\* upsert_task: self.current_tasks[t.task_id] = t
UpsertTask56(c) ==
    /\ cpc[c] = "l56"
    /\ current_tasks' = UpsertTask(current_tasks,
                                   DefaultTaskState(cop[c].task_id, cop[c].folder_path, 0))
    /\ Goto(c, "exit")
    /\ UNCHANGED <<queue, task_history, api, prog, conc, lock, waiters, cop, entry>>

\* mutant: the early return leaves the body without releasing the lock
SetTaskStatus68_NoRelease(c) ==
    /\ cpc[c] = "l68"
    /\ Goto(c, IF HasKey(current_tasks, cop[c].task_id) THEN "l71" ELSE "idle")
    /\ UNCHANGED <<mgr, api, prog, conc, lock, waiters, cop, entry>>

\* set_task_status: t = self.current_tasks.get(task_id); if not t: return
SetTaskStatus68(c) ==
    /\ cpc[c] = "l68"
    /\ Goto(c, IF HasKey(current_tasks, cop[c].task_id) THEN "l71" ELSE "exit")
    /\ UNCHANGED <<mgr, api, prog, conc, lock, waiters, cop, entry>>

\* set_task_status: the assignments to the fields of t, which is the stored record
SetTaskStatus71(c) ==
    /\ cpc[c] = "l71"
    /\ current_tasks' = DictSet(current_tasks,
          UpdateFields(DictGet(current_tasks, cop[c].task_id), cop[c].status,
                       cop[c].message, cop[c].progress, cop[c].error))
    /\ Goto(c, "l79")
    /\ UNCHANGED <<queue, task_history, api, prog, conc, lock, waiters, cop, entry>>

\* set_task_status: if status in ("done", "error")
SetTaskStatus79(c) ==
    /\ cpc[c] = "l79"
    /\ Goto(c, IF MovesToHistory(cop[c].status) THEN "l81" ELSE "exit")
    /\ UNCHANGED <<mgr, api, prog, conc, lock, waiters, cop, entry>>

\* mutant: the lock is given up between the append and the pop
SetTaskStatus81_Unlocks(c) ==
    /\ cpc[c] = "l81"
    /\ task_history' = Append(task_history, DictGet(current_tasks, cop[c].task_id))
    /\ Goto(c, "l82")
    /\ lock' = Unlocked
    /\ UNCHANGED <<queue, current_tasks, api, prog, conc, waiters, cop, entry>>

\* set_task_status: self.task_history.append(t)
SetTaskStatus81(c) ==
    /\ cpc[c] = "l81"
    /\ task_history' = Append(task_history, DictGet(current_tasks, cop[c].task_id))
    /\ Goto(c, "l82")
    /\ UNCHANGED <<queue, current_tasks, api, prog, conc, lock, waiters, cop, entry>>

\* set_task_status: self.current_tasks.pop(task_id, None)
SetTaskStatus82(c) ==
    /\ cpc[c] = "l82"
    /\ current_tasks' = DictPop(current_tasks, cop[c].task_id)
    /\ Goto(c, "exit")
    /\ UNCHANGED <<queue, task_history, api, prog, conc, lock, waiters, cop, entry>>

\* list_tasks: return list(self.current_tasks.values())
ListTasks88(c) ==
    /\ cpc[c] = "l88"
    /\ Goto(c, "exit")
    /\ UNCHANGED <<mgr, api, prog, conc, lock, waiters, cop, entry>>

\* clear_tasks: self.current_tasks.clear()
ClearTasks93(c) ==
    /\ cpc[c] = "l93"
    /\ current_tasks' = ClearTasks.ct
    /\ Goto(c, "l94")
    /\ UNCHANGED <<queue, task_history, api, prog, conc, lock, waiters, cop, entry>>

\* clear_tasks: self.task_history.clear()
ClearTasks94(c) ==
    /\ cpc[c] = "l94"
    /\ task_history' = ClearTasks.th
    /\ Goto(c, "exit")
    /\ UNCHANGED <<queue, current_tasks, api, prog, conc, lock, waiters, cop, entry>>

\* async with self._lock: exit, on every way out of the body
Release(c) ==
    /\ cpc[c] = "exit"
    /\ lock' = Unlocked
    /\ cpc' = [cpc EXCEPT ![c] = "idle"]
    /\ cop' = [cop EXCEPT ![c] = NoCall]
    /\ entry' = NoEntry
    /\ UNCHANGED <<mgr, api, prog, conc, waiters>>

\* the caller is between the entry and the exit of "async with self._lock"
InBody(c) == cpc[c] \notin {"idle", "acquire"}

\* a caller that has a list from get_queue changes that list; the bodies of the
\* methods await nothing, so no caller is inside one meanwhile
ModifyResult ==
    /\ lock = Unlocked
    /\ ~InList("x", got_queue)
    /\ got_queue' = Append(got_queue, "x")
    /\ queue' = IF got_shared THEN Append(queue, "x") ELSE queue
    /\ UNCHANGED <<current_tasks, task_history, enq_log, got_shared, prog, conc, lck>>

\* the steps of a call once the caller waits for the lock
CallerStep(c) ==
    \/ \E call \in LockCalls : Acquire(c, call)
    \/ Enqueue40(c)
    \/ Enqueue41(c)
    \/ GetQueue46(c)
    \/ ClearQueue51(c)
    \/ UpsertTask56(c)
    \/ SetTaskStatus68(c)
    \/ SetTaskStatus71(c)
    \/ SetTaskStatus79(c)
    \/ SetTaskStatus81(c)
    \/ SetTaskStatus82(c)
    \/ ListTasks88(c)
    \/ ClearTasks93(c)
    \/ ClearTasks94(c)
    \/ Release(c)

\* the calls of the manager alone
LockCallsNext ==
    \/ \E c \in Callers : CallMethod(c)
    \/ \E c \in Callers : CallerStep(c)

LockNext ==
    \/ LockCallsNext
    \/ ModifyResult

SpecLock == ApiInit /\ [][LockNext]_vars

(***************************************************************************)
(* C2: while a set_task_status call with a terminal status is between its  *)
(* append to task_history and its removal from current_tasks, it holds the *)
(* lock and no other caller is inside a method body, so none reads the     *)
(* manager then; the append comes before the removal, so the task is in    *)
(* current_tasks until it is in task_history.                              *)
(***************************************************************************)
C2_MoveUnobserved ==
    \A c \in Callers :
        /\ cpc[c] \in {"l81", "l82"} =>
              /\ lock = c
              /\ \A d \in Callers \ {c} : ~InBody(d)
              /\ HasKey(current_tasks, cop[c].task_id)
        /\ cpc[c] = "l82" => cop[c].task_id \in HistoryIds

\* a move half done while another caller waits for the lock
C2_Witness ==
    \E c, d \in Callers :
        /\ cpc[c] = "l82"
        /\ cpc[d] = "acquire"


\* the event loop runs every caller that can go on; asyncio.Lock wakes its waiters
\* first come first
LockFairness == \A c \in Callers : WF_vars(CallerStep(c))

FairSpecLock == ApiInit /\ [][LockCallsNext]_vars /\ LockFairness

\* the manager after the whole method call, started in the state pre
WholeCall(call, pre) ==
    CASE call.op = "enqueue" ->
           [pre EXCEPT !.queue = Enqueue(pre.queue, call.folder_path)]
      [] call.op = "clear_queue" ->
           [pre EXCEPT !.queue = ClearQueue(pre.queue)]
      [] call.op = "upsert_task" ->
           [pre EXCEPT !.current_tasks =
               UpsertTask(pre.current_tasks,
                          DefaultTaskState(call.task_id, call.folder_path, 0))]
      [] call.op = "set_task_status" ->
           LET r == SetTaskStatus(pre.current_tasks, pre.task_history, call.task_id,
                                  call.status, call.message, call.progress, call.error)
           IN  [pre EXCEPT !.current_tasks = r.ct, !.task_history = r.th]
      [] call.op = "clear_tasks" ->
           [pre EXCEPT !.current_tasks = ClearTasks.ct, !.task_history = ClearTasks.th]
      [] OTHER -> pre

\* the manager's state as one value
MgrState == [queue |-> queue, current_tasks |-> current_tasks, task_history |-> task_history]

(***************************************************************************)
(* C14: at most one caller is inside a method body, and it holds the lock; *)
(* a caller enters only when no caller is inside a body, the manager       *)
(* changes only by the steps of the caller inside, and when that caller    *)
(* leaves, the manager is what the whole method call makes of the state it *)
(* entered in: the execution is the serial one in the order of entry.      *)
(***************************************************************************)
C14_OneInside ==
    /\ \A c, d \in Callers : (InBody(c) /\ InBody(d)) => c = d
    /\ \A c \in Callers : InBody(c) <=> lock = c

C14_Serializable ==
    /\ []C14_OneInside
    /\ [][\A c \in Callers :
            (cpc[c] = "acquire" /\ cpc'[c] # "acquire") =>
                /\ \A d \in Callers : ~InBody(d)
                /\ entry' = MgrState]_vars
    /\ [][MgrState' # MgrState => \E c \in Callers : InBody(c) /\ InBody(c)']_vars
    /\ [][\A c \in Callers : Release(c) => MgrState = WholeCall(cop[c], entry)]_vars

\* a clear_tasks call half done while the other caller waits for the lock
C14_Witness ==
    \E c, d \in Callers :
        /\ cpc[c] = "l94"
        /\ task_history # <<>>
        /\ entry.current_tasks # <<>>
        /\ cpc[d] = "acquire"

(***************************************************************************)
(* C19: clear_queue empties the queue and leaves current_tasks and         *)
(* task_history as they are; clear_tasks empties current_tasks and         *)
(* task_history and leaves the queue as it is; get_queue and list_tasks    *)
(* leave all three as they are; get_queue returns the queue, and a change  *)
(* the caller makes to the list it got leaves the stored queue as it is.   *)
(***************************************************************************)
C19_FrameEffects ==
    /\ [][\A c \in Callers : Release(c) =>
            /\ cop[c].op = "clear_queue" =>
                  /\ queue = <<>>
                  /\ current_tasks = entry.current_tasks
                  /\ task_history = entry.task_history
            /\ cop[c].op = "clear_tasks" =>
                  /\ current_tasks = <<>>
                  /\ task_history = <<>>
                  /\ queue = entry.queue
            /\ cop[c].op \in {"get_queue", "list_tasks"} => MgrState = entry
            /\ cop[c].op = "get_queue" => got_queue = entry.queue]_vars
    /\ [][ModifyResult => (queue' = queue /\ got_queue' # got_queue)]_vars

\* the caller changed the list it got from a queue that holds a path, and
\* clear_queue and clear_tasks have run on a state that had records
C19_Witness ==
    /\ InList("x", got_queue)
    /\ InList("a", got_queue)
    /\ queue = <<"a">>
    /\ \E c \in Callers :
          /\ cpc[c] = "exit"
          /\ cop[c].op = "clear_tasks"
          /\ entry.current_tasks # <<>>
          /\ entry.task_history # <<>>

(***************************************************************************)
(* C20: a caller that is outside the method bodies does not hold the lock  *)
(* (the lock is released on every way out, the early return of             *)
(* set_task_status included), and under fair scheduling every caller that  *)
(* waits for the lock enters, leaves the body and has released the lock.   *)
(***************************************************************************)
C20_EveryCallReturns ==
    /\ [](\A c \in Callers : ~InBody(c) => lock # c)
    /\ \A c \in Callers : (cpc[c] = "acquire") ~> (cpc[c] = "idle")

\* set_task_status has returned early for an unknown identifier and holds the
\* lock still, while the other caller waits
C20_Witness ==
    \E c, d \in Callers :
        /\ cpc[c] = "exit"
        /\ cop[c].op = "set_task_status"
        /\ cop[c].status = "done"
        /\ cop[c].task_id \notin HistoryIds
        /\ cpc[d] = "acquire"
        /\ cop[d].op = "none"

====
